---- MODULE Spec2Model ----
(***************************************************************************)
(* Rule evaluation engine of the Mountain Altitude Sickness Analyzer       *)
(* (src/app.py): assess_ams_risk, generate_ascent_plan, diagnose_symptoms. *)
(* Every behaviour is one invocation of one of the functions: the inputs   *)
(* are chosen by the Call action; generate_ascent_plan is then run         *)
(* statement group by statement group, the other functions in one step.    *)
(***************************************************************************)
EXTENDS Integers, Sequences, FiniteSets, TLC

VARIABLES
    pc,                  \* position: "idle", "plan_*", or "<operation>_done"
    \* assess_ams_risk: parameters and the returned triple
    history, sleeping_elevation, ascent_rate, age, medical_conditions,
    risk_level, risk_factors, risk_score,
    \* generate_ascent_plan: parameters and locals
    starting_altitude, target_altitude, current_altitude, day,
    rest_day_counter, plan,
    \* diagnose_symptoms: parameter and the returned pair
    symptoms, diagnosis, severity,
    \* recommend_treatment: the returned list (its parameter is diagnosis)
    treatments,
    \* recommend_prophylaxis: parameter and the returned list, or the
    \* exception raised (its other parameter is risk_level)
    has_contraindications, recommendations, raised,
    \* recommend_hape_prophylaxis: parameter (its other parameter, the dict
    \* main passes to both functions, is has_contraindications)
    history_hape,
    \* the symptom checker: the slider's value and the Lake Louise box it
    \* shows (its score, and the interpretation written under it)
    functional_status, shown_score, interpretation

riskVars == <<history, sleeping_elevation, ascent_rate, age, medical_conditions,
              risk_level, risk_factors, risk_score>>
planVars == <<starting_altitude, target_altitude, current_altitude, day,
              rest_day_counter, plan>>
diagVars == <<symptoms, diagnosis, severity,
              functional_status, shown_score, interpretation>>
recVars == <<treatments, has_contraindications, recommendations, raised,
             history_hape>>
vars == <<pc, riskVars, planVars, diagVars, recVars>>

Min(a, b) == IF a <= b THEN a ELSE b

\* x in s, for a list s
InSeq(x, s) == \E i \in 1..Len(s) : s[i] = x

(***************************************************************************)
(* Input domains                                                           *)
(***************************************************************************)

\* history: the three options of the risk form, the "Mild AMS" value the
\* function tests for, and the data model's "None".
Histories ==
    {"None", "None or Mild AMS", "Mild AMS", "Moderate-Severe AMS", "HAPE or HACE"}

\* sleeping elevations on both sides of every cut point (2500, 2800, 3500)
Elevations == {0, 2499, 2500, 2799, 2800, 3500, 3501, 4000}

\* ascent rates on both sides of the 500 m/day cut point; the rate is
\* (target_altitude - sleeping_elevation) / days_to_target, negative when the
\* target is below the sleeping elevation. The function only compares it
\* with 500, so whole numbers stand for the quotients.
AscentRates == {-200, 0, 500, 501, 600}

\* ages on both sides of the cut points 18 and 65
Ages == {17, 18, 65, 66, 70}

\* medical_conditions: the two conditions the function tests for, an option
\* of the risk form without a weight, and three conditions no option carries
Conditions ==
    {"Cardiac disease", "Pulmonary disease", "Migraine", "Pregnancy",
     "Recent respiratory infection", "Sickle-cell disease"}

(***************************************************************************)
(* assess_ams_risk                                                         *)
(***************************************************************************)

\* an entry of risk_factors: the text, and the number an f-string puts in it
Factor(text) == [text |-> text, arg |-> <<>>]
FactorN(text, n) == [text |-> text, arg |-> <<n>>]

\* one "risk_score += w; risk_factors.append(f)"
Add(r, w, f) == [score |-> r.score + w, factors |-> Append(r.factors, f)]

RiskStart == [score |-> 0, factors |-> <<>>]

\* faulty variant: the weights of the first and the last branch are exchanged
HistoryStep_Swapped(r, h) ==
    IF h = "HAPE or HACE"
      THEN Add(r, 1, Factor("Previous HAPE/HACE (High Risk)"))
    ELSE IF h = "Moderate-Severe AMS"
      THEN Add(r, 2, Factor("Previous Moderate-Severe AMS"))
    ELSE IF h = "Mild AMS"
      THEN Add(r, 3, Factor("Previous Mild AMS"))
    ELSE r

HistoryStep(r, h) ==
    IF h = "HAPE or HACE"
      THEN Add(r, 3, Factor("Previous HAPE/HACE (High Risk)"))
    ELSE IF h = "Moderate-Severe AMS"
      THEN Add(r, 2, Factor("Previous Moderate-Severe AMS"))
    ELSE IF h = "Mild AMS"
      THEN Add(r, 1, Factor("Previous Mild AMS"))
    ELSE r

\* faulty variant: the first cut point is inclusive
ElevationStep_Inclusive(r, e) ==
    IF e >= 3500
      THEN Add(r, 3, FactorN("High sleeping elevation: {}m", e))
    ELSE IF e >= 2800
      THEN Add(r, 2, FactorN("Moderate sleeping elevation: {}m", e))
    ELSE IF e >= 2500
      THEN Add(r, 1, FactorN("Elevated sleeping elevation: {}m", e))
    ELSE r

ElevationStep(r, e) ==
    IF e > 3500
      THEN Add(r, 3, FactorN("High sleeping elevation: {}m", e))
    ELSE IF e >= 2800
      THEN Add(r, 2, FactorN("Moderate sleeping elevation: {}m", e))
    ELSE IF e >= 2500
      THEN Add(r, 1, FactorN("Elevated sleeping elevation: {}m", e))
    ELSE r

AscentRateStep(r, rate) ==
    IF rate > 500
      THEN Add(r, 2, FactorN("Rapid ascent rate: {}m/day", rate))
    ELSE r

AgeStep(r, a) ==
    IF a < 18 \/ a > 65
      THEN Add(r, 1, FactorN("Age factor: {} years", a))
    ELSE r

\* faulty variant: "elif" for the second "if"
ConditionsStep_Elif(r, mc) ==
    IF "Cardiac disease" \in mc
      THEN Add(r, 1, Factor("Cardiac disease"))
    ELSE IF "Pulmonary disease" \in mc
      THEN Add(r, 1, Factor("Pulmonary disease"))
    ELSE r

ConditionsStep(r, mc) ==
    LET r1 == IF "Cardiac disease" \in mc
                THEN Add(r, 1, Factor("Cardiac disease")) ELSE r
    IN  IF "Pulmonary disease" \in mc
          THEN Add(r1, 1, Factor("Pulmonary disease")) ELSE r1

\* faulty variant: the High cut point is exclusive
RiskCategory_Exclusive(score) ==
    IF score > 6 THEN "High"
    ELSE IF score >= 3 THEN "Moderate"
    ELSE "Low"

RiskCategory(score) ==
    IF score >= 6 THEN "High"
    ELSE IF score >= 3 THEN "Moderate"
    ELSE "Low"

\* variant with a category escalation: one step up when a condition is present
assess_ams_risk_Escalating(h, e, rate, a, mc) ==
    LET r == ConditionsStep(
                 AgeStep(
                     AscentRateStep(
                         ElevationStep(HistoryStep(RiskStart, h), e), rate), a), mc)
        cat == RiskCategory(r.score)
        up == IF cat = "Low" THEN "Moderate" ELSE "High"
    IN  [level |-> IF mc \cap {"Cardiac disease", "Pulmonary disease"} # {}
                     THEN up ELSE cat,
         factors |-> r.factors, score |-> r.score]

\* the returned triple (risk level, risk_factors, risk_score)
assess_ams_risk(h, e, rate, a, mc) ==
    LET r == ConditionsStep(
                 AgeStep(
                     AscentRateStep(
                         ElevationStep(HistoryStep(RiskStart, h), e), rate), a), mc)
    IN  [level |-> RiskCategory(r.score), factors |-> r.factors, score |-> r.score]

(***************************************************************************)
(* Initial state and the invocation of assess_ams_risk                     *)
(***************************************************************************)

Init ==
    /\ pc = "idle"
    /\ history = "None"
    /\ sleeping_elevation = 0
    /\ ascent_rate = 0
    /\ age = 0
    /\ medical_conditions = {}
    /\ risk_level = "Low"
    /\ risk_factors = <<>>
    /\ risk_score = 0
    /\ starting_altitude = 0
    /\ target_altitude = 0
    /\ current_altitude = 0
    /\ day = 0
    /\ rest_day_counter = 0
    /\ plan = <<>>
    /\ symptoms = {}
    /\ diagnosis = <<>>
    /\ severity = "None"
    /\ treatments = <<>>
    /\ has_contraindications = <<>>
    /\ recommendations = <<>>
    /\ raised = "None"
    /\ history_hape = FALSE
    /\ functional_status = "Normal activities"
    /\ shown_score = 0
    /\ interpretation = "Not shown"

AssessRisk ==
    /\ pc = "idle"
    /\ \E h \in Histories, e \in Elevations, rate \in AscentRates,
          a \in Ages, mc \in SUBSET Conditions :
          LET res == assess_ams_risk(h, e, rate, a, mc)
          IN  /\ history' = h
              /\ sleeping_elevation' = e
              /\ ascent_rate' = rate
              /\ age' = a
              /\ medical_conditions' = mc
              /\ risk_level' = res.level
              /\ risk_factors' = res.factors
              /\ risk_score' = res.score
    /\ pc' = "risk_done"
    /\ UNCHANGED <<planVars, diagVars, recVars>>

NextRisk == AssessRisk

SpecRisk == Init /\ [][NextRisk]_vars

(***************************************************************************)
(* generate_ascent_plan                                                    *)
(***************************************************************************)

\* number of 250 m grid points of the altitude inputs (36 * 250 = 9000, the
\* largest target the planner form accepts)
MaxAltUnits == 36

\* starting and target altitudes: the grid, and values next to the cut points
\* 1500, 2800 and 3000
Altitudes == {i * 250 : i \in 0..MaxAltUnits} \cup {1499, 2800, 2801, 2999, 3001}

\* a plan entry; notes is the text and the numbers an f-string puts in it
Step(d, action, altitude, text, args) ==
    [day |-> d, action |-> action, altitude |-> altitude,
     notes |-> [text |-> text, arg |-> args]]

\* faulty variant: the test of the target is dropped
NeedsIntermediateStop_NoTarget(start, target) == start < 1500

\* faulty variant: "or" for "and"
NeedsIntermediateStop_Or(start, target) == start < 1500 \/ target > 2800

\* faulty variant: both comparisons inclusive
NeedsIntermediateStop_Inclusive(start, target) == start <= 1500 /\ target >= 2800

NeedsIntermediateStop(start, target) == start < 1500 /\ target > 2800

NeedsAscentToBase(cur) == cur < 3000

\* faulty variant: the base is the target itself
BaseAltitude_Target(target) == target

BaseAltitude(target) == Min(3000, target)

\* faulty variant: the next altitude is not clamped to the target
NextAltitude_NoClamp(cur, target) == cur + 500

NextAltitude(cur, target) == Min(cur + 500, target)

\* faulty variant: the test of the target is dropped
RestDayDue_NoTarget(counter, cur, target) == counter >= 3

RestDayDue(counter, cur, target) == counter >= 3 /\ cur < target

\* the call: plan = [], current_altitude = starting_altitude, day = 0
CallPlan ==
    /\ pc = "idle"
    /\ \E s \in Altitudes, t \in Altitudes :
          /\ starting_altitude' = s
          /\ target_altitude' = t
          /\ current_altitude' = s
    /\ plan' = <<>>
    /\ day' = 0
    /\ pc' = "plan_intermediate"
    /\ UNCHANGED <<rest_day_counter, riskVars, diagVars, recVars>>

\* "If starting below 3000m, suggest intermediate stop"
IntermediateStop ==
    /\ pc = "plan_intermediate"
    /\ IF NeedsIntermediateStop(starting_altitude, target_altitude)
         THEN /\ plan' = Append(plan,
                    Step(day, "Intermediate Stop", 1600,
                         "Spend 1 night at intermediate altitude (e.g., Denver)", <<>>))
              /\ current_altitude' = 1600
              /\ day' = day + 1
         ELSE UNCHANGED <<plan, current_altitude, day>>
    /\ pc' = "plan_base"
    /\ UNCHANGED <<starting_altitude, target_altitude, rest_day_counter,
                   riskVars, diagVars, recVars>>

\* "Initial ascent to starting point", then rest_day_counter = 0
AscentToBase ==
    /\ pc = "plan_base"
    /\ IF NeedsAscentToBase(current_altitude)
         THEN /\ plan' = Append(plan,
                    Step(day, "Ascent to Base", BaseAltitude(target_altitude),
                         "Initial ascent to starting elevation", <<>>))
              /\ current_altitude' = BaseAltitude(target_altitude)
              /\ day' = day + 1
         ELSE UNCHANGED <<plan, current_altitude, day>>
    /\ rest_day_counter' = 0
    /\ pc' = "plan_loop"
    /\ UNCHANGED <<starting_altitude, target_altitude, riskVars, diagVars, recVars>>

\* one pass of "while current_altitude < target_altitude"
LoopBody ==
    /\ pc = "plan_loop"
    /\ current_altitude < target_altitude
    /\ LET next_altitude == NextAltitude(current_altitude, target_altitude)
           ascent == Step(day, "Ascent", next_altitude,
                          "Gain {}m (sleep at {}m)",
                          <<next_altitude - current_altitude, next_altitude>>)
           rest == Step(day + 1, "Rest Day", next_altitude,
                        "Acclimatization day - no gain in sleeping elevation", <<>>)
       IN  /\ current_altitude' = next_altitude
           /\ IF RestDayDue(rest_day_counter + 1, next_altitude, target_altitude)
                THEN /\ plan' = Append(Append(plan, ascent), rest)
                     /\ day' = day + 2
                     /\ rest_day_counter' = 0
                ELSE /\ plan' = Append(plan, ascent)
                     /\ day' = day + 1
                     /\ rest_day_counter' = rest_day_counter + 1
    /\ pc' = "plan_loop"
    /\ UNCHANGED <<starting_altitude, target_altitude, riskVars, diagVars, recVars>>

\* the loop condition fails: return plan
PlanReturn ==
    /\ pc = "plan_loop"
    /\ ~(current_altitude < target_altitude)
    /\ pc' = "plan_done"
    /\ UNCHANGED <<planVars, riskVars, diagVars, recVars>>

NextPlan == CallPlan \/ IntermediateStop \/ AscentToBase \/ LoopBody \/ PlanReturn

SpecPlan == Init /\ [][NextPlan]_vars

\* a started call runs on: the function is sequential code
FairSpecPlan == SpecPlan /\ WF_vars(NextPlan)

(***************************************************************************)
(* diagnose_symptoms                                                       *)
(***************************************************************************)

\* largest number of symptoms passed in one call
MaxSymptoms == 6

\* the options of the symptom form
FormSymptoms ==
    {"Headache", "Severe headache", "Nausea/Vomiting", "Fatigue", "Dizziness",
     "Shortness of breath on exertion", "Severe dyspnea on exertion",
     "Dyspnea at rest", "Cough", "Chest tightness",
     "Ataxia (loss of coordination)", "Altered mental status", "Confusion",
     "Difficulty sleeping"}

\* the form's options, the "Ataxia" the function tests for, and the signs the
\* data model names that no option carries
Symptoms == FormSymptoms \cup {"Ataxia", "Severe lassitude", "Cyanosis"}

\* symptoms is a list without repetitions (a multiselect's value): a set, whose
\* len is its cardinality
SymptomSets == {S \in SUBSET Symptoms : Cardinality(S) <= MaxSymptoms}

HACE_LABEL == "HIGH ALTITUDE CEREBRAL EDEMA (HACE) - EMERGENCY"
HAPE_LABEL == "HIGH ALTITUDE PULMONARY EDEMA (HAPE) - EMERGENCY"

DiagStart == [diagnosis |-> <<>>, severity |-> "None"]

\* faulty variant: the label is appended and the severity left as it was
Label_KeepSeverity(d, label, sev) ==
    [diagnosis |-> Append(d.diagnosis, label), severity |-> d.severity]

\* one "diagnosis.append(label); severity = sev"
Label(d, label, sev) == [diagnosis |-> Append(d.diagnosis, label), severity |-> sev]

\* "Check for AMS"
AmsStep(d, syms) ==
    IF "Headache" \in syms
      THEN LET ams_symptoms == syms \cap {"Nausea/Vomiting", "Fatigue", "Dizziness"}
               lake_louise_score == Cardinality(syms)
           IN  IF Cardinality(ams_symptoms) >= 1
                 THEN IF lake_louise_score >= 6 \/ "Severe headache" \in syms
                        THEN Label(d, "Moderate-Severe AMS", "Moderate-Severe")
                        ELSE Label(d, "Mild AMS", "Mild")
                 ELSE d
      ELSE d

\* "Check for HACE"
HaceStep(d, syms) ==
    IF \E s \in {"Ataxia", "Altered mental status", "Confusion"} : s \in syms
      THEN Label(d, HACE_LABEL, "Severe - Emergency")
      ELSE d

\* faulty variant: fatigue is not among the supporting symptoms
HapeStep_NoFatigue(d, syms) ==
    IF "Dyspnea at rest" \in syms \/ "Severe dyspnea on exertion" \in syms
      THEN LET hape_symptoms == syms \cap {"Cough", "Chest tightness"}
           IN  IF Cardinality(hape_symptoms) >= 1
                 THEN Label(d, HAPE_LABEL, "Severe - Emergency")
                 ELSE d
      ELSE d

\* "Check for HAPE"
HapeStep(d, syms) ==
    IF "Dyspnea at rest" \in syms \/ "Severe dyspnea on exertion" \in syms
      THEN LET hape_symptoms == syms \cap {"Cough", "Chest tightness", "Fatigue"}
           IN  IF Cardinality(hape_symptoms) >= 1
                 THEN Label(d, HAPE_LABEL, "Severe - Emergency")
                 ELSE d
      ELSE d

\* faulty variant: the AMS check runs after the HACE and HAPE checks
diagnose_symptoms_AmsLast(syms) ==
    AmsStep(HapeStep(HaceStep(DiagStart, syms), syms), syms)

\* the returned pair (diagnosis, severity); altitude and time_since_ascent
\* are not read by the function
diagnose_symptoms(syms) == HapeStep(HaceStep(AmsStep(DiagStart, syms), syms), syms)

Diagnose ==
    /\ pc = "idle"
    /\ \E syms \in SymptomSets :
          LET res == diagnose_symptoms(syms)
          IN  /\ symptoms' = syms
              /\ diagnosis' = res.diagnosis
              /\ severity' = res.severity
    /\ pc' = "diag_done"
    /\ UNCHANGED <<functional_status, shown_score, interpretation,
                   riskVars, planVars, recVars>>

NextDiag == Diagnose

SpecDiag == Init /\ [][NextDiag]_vars

(***************************************************************************)
(* recommend_treatment                                                     *)
(***************************************************************************)

\* largest number of labels in a diagnosis passed to recommend_treatment
MaxLabels == 4

\* the labels diagnose_symptoms produces, and the bare names of the two
\* emergencies, which the function recognises as well
DiagnosisLabels ==
    {"Mild AMS", "Moderate-Severe AMS", HACE_LABEL, HAPE_LABEL, "HACE", "HAPE"}

\* diagnosis: the labels in any order, none repeated
DiagnosisLists ==
    UNION {{d \in [1..n -> DiagnosisLabels] :
               \A i, j \in 1..n : i # j => d[i] # d[j]} : n \in 0..MaxLabels}

\* word in " ".join(diagnosis), for the words "HACE" and "HAPE": neither has
\* a space in it, so it is found exactly when it is part of one of the labels
LabelsWith(word) ==
    CASE word = "HACE" -> {HACE_LABEL, "HACE"}
      [] word = "HAPE" -> {HAPE_LABEL, "HAPE"}

InJoined(word, d) == \E i \in 1..Len(d) : d[i] \in LabelsWith(word)

Treatment(priority, action, details) ==
    [priority |-> priority, action |-> action, details |-> details]

MildAmsBlock ==
    << Treatment("High", "Stop Ascent",
                 "Do not ascend higher until symptoms resolve"),
       Treatment("High", "Symptom Management",
                 "Ibuprofen 600mg every 8h or Acetaminophen 1000mg every 8h for headache"),
       Treatment("Medium", "Consider Medication",
                 "Acetazolamide 250mg every 12h may help (not required for mild AMS)"),
       Treatment("Medium", "Hydration & Rest",
                 "Maintain adequate hydration, rest, avoid alcohol") >>

ModerateSevereAmsBlock ==
    << Treatment("Critical", "Stop Ascent & Consider Descent",
                 "Descend 300-1000m if symptoms worsen or don't improve in 24h"),
       Treatment("High", "Dexamethasone",
                 "4mg every 6 hours (oral, IM, or IV). Strong Recommendation"),
       Treatment("High", "Acetazolamide",
                 "250mg every 12 hours (adjunct therapy)"),
       Treatment("High", "Supplemental Oxygen",
                 "If available, titrate to SpO2 >90%") >>

HaceBlock ==
    << Treatment("EMERGENCY", "IMMEDIATE DESCENT",
                 "Descend immediately! This is a life-threatening emergency. Do not descend alone."),
       Treatment("EMERGENCY", "Dexamethasone",
                 "8mg immediately, then 4mg every 6 hours (Strong Recommendation)"),
       Treatment("EMERGENCY", "Supplemental Oxygen",
                 "Administer oxygen to achieve SpO2 >90% during descent"),
       Treatment("EMERGENCY", "Portable Hyperbaric Chamber",
                 "Use if descent impossible and oxygen unavailable") >>

HapeBlock ==
    << Treatment("EMERGENCY", "IMMEDIATE DESCENT",
                 "Descend at least 1000m or until symptoms resolve. Minimize exertion."),
       Treatment("EMERGENCY", "Supplemental Oxygen",
                 "Titrate to SpO2 >90%. First-line treatment if descent delayed."),
       Treatment("High", "Nifedipine (if oxygen unavailable)",
                 "30mg extended release every 12h (only if descent impossible and no oxygen)"),
       Treatment("High", "Portable Hyperbaric Chamber",
                 "Use if descent delayed and oxygen unavailable"),
       Treatment("Medium", "Consider CPAP/EPAP",
                 "If available and patient can tolerate, as adjunct to oxygen") >>

\* faulty variant: "elif" for the second, third and fourth "if"
recommend_treatment_Exclusive(d) ==
    IF InSeq("Mild AMS", d) THEN MildAmsBlock
    ELSE IF InSeq("Moderate-Severe AMS", d) THEN ModerateSevereAmsBlock
    ELSE IF InJoined("HACE", d) THEN HaceBlock
    ELSE IF InJoined("HAPE", d) THEN HapeBlock
    ELSE <<>>

\* variant with a monitoring action for the empty diagnosis
recommend_treatment_Monitoring(d) ==
    IF d = <<>>
      THEN << Treatment("Low", "Continue Monitoring",
                        "No altitude illness detected") >>
      ELSE (IF InSeq("Mild AMS", d) THEN MildAmsBlock ELSE <<>>)
             \o (IF InSeq("Moderate-Severe AMS", d) THEN ModerateSevereAmsBlock ELSE <<>>)
             \o (IF InJoined("HACE", d) THEN HaceBlock ELSE <<>>)
             \o (IF InJoined("HAPE", d) THEN HapeBlock ELSE <<>>)

\* the returned list; severity and current_altitude are not read by the
\* function
recommend_treatment(d) ==
    (IF InSeq("Mild AMS", d) THEN MildAmsBlock ELSE <<>>)
      \o (IF InSeq("Moderate-Severe AMS", d) THEN ModerateSevereAmsBlock ELSE <<>>)
      \o (IF InJoined("HACE", d) THEN HaceBlock ELSE <<>>)
      \o (IF InJoined("HAPE", d) THEN HapeBlock ELSE <<>>)

Treat ==
    /\ pc = "idle"
    /\ \E d \in DiagnosisLists :
          /\ diagnosis' = d
          /\ treatments' = recommend_treatment(d)
    /\ pc' = "treat_done"
    /\ UNCHANGED <<symptoms, severity, functional_status, shown_score,
                   interpretation,
                   riskVars, planVars,
                   has_contraindications, recommendations, raised,
                   history_hape>>

NextTreat == Treat

SpecTreat == Init /\ [][NextTreat]_vars

(***************************************************************************)
(* recommend_prophylaxis                                                   *)
(***************************************************************************)

RiskLevels == {"Low", "Moderate", "High"}

\* the keys of the contraindication map of the prevention form
MedicationKeys == {"acetazolamide", "dexamethasone", "nifedipine", "ibuprofen"}

\* has_contraindications: a dict from medication keys to booleans, with any
\* of the keys present
ContraindicationMaps == UNION {[K -> BOOLEAN] : K \in SUBSET MedicationKeys}

Medication(medication, dose, start, duration, strength, notes) ==
    [medication |-> medication, dose |-> dose, start |-> start,
     duration |-> duration, strength |-> strength, notes |-> notes]

Action(action, details, strength) ==
    [action |-> action, details |-> details, strength |-> strength]

\* what a call gives: the list it returns, or the exception it raises
Returned(recs) == [recommendations |-> recs, raised |-> "None"]
Raises(exception) == [recommendations |-> <<>>, raised |-> exception]

\* faulty variant: nothing is appended for "Low"
LowBranch_Empty == <<>>

LowBranch ==
    << Action("Gradual Ascent",
              "No medication needed. Follow gradual ascent guidelines.",
              "Strong Recommendation") >>

\* the "Moderate" branch, after has_contraindications["acetazolamide"]
ModerateBranch(contraindicated) ==
    IF ~contraindicated
      THEN << Medication("Acetazolamide", "125 mg every 12 hours",
                         "Night before ascent", "2-4 days at target altitude",
                         "Strong Recommendation",
                         "First-line prophylaxis. Start 125mg at bedtime before ascent.") >>
      ELSE << Medication("Dexamethasone", "2 mg every 6 hours or 4 mg every 12 hours",
                         "Day before ascent", "2-4 days at target altitude",
                         "Strong Recommendation (Alternative)",
                         "Use if acetazolamide contraindicated") >>

\* faulty variant: the dose of the "Moderate" branch
HighBranch_ModerateDose(contraindicated) ==
    (IF ~contraindicated
       THEN << Medication("Acetazolamide", "125 mg every 12 hours",
                          "Night before ascent", "2-4 days at target altitude",
                          "Strong Recommendation",
                          "Higher dose for high-risk profiles") >>
       ELSE <<>>)
      \o << Action("Consider Staged Ascent",
                   "Spend 6-7 days at 2200-3000m before proceeding higher",
                   "Strong Recommendation") >>

\* the "High" branch, after has_contraindications["acetazolamide"]
HighBranch(contraindicated) ==
    (IF ~contraindicated
       THEN << Medication("Acetazolamide", "250 mg every 12 hours",
                          "Night before ascent", "2-4 days at target altitude",
                          "Strong Recommendation",
                          "Higher dose for high-risk profiles") >>
       ELSE <<>>)
      \o << Action("Consider Staged Ascent",
                   "Spend 6-7 days at 2200-3000m before proceeding higher",
                   "Strong Recommendation") >>

\* "Add alternative option"
AlternativeOption(level) ==
    IF level \in {"Moderate", "High"}
      THEN << Medication("Ibuprofen (Alternative)", "600 mg every 8 hours",
                         "Before ascent", "Short-term use only",
                         "Weak Recommendation",
                         "For those who cannot take acetazolamide or dexamethasone") >>
      ELSE <<>>

\* the returned list; has_contraindications["acetazolamide"] raises KeyError
\* when the dict has no such key
recommend_prophylaxis(level, hc) ==
    IF level = "Low"
      THEN Returned(LowBranch \o AlternativeOption(level))
    ELSE IF level = "Moderate"
      THEN IF "acetazolamide" \notin DOMAIN hc
             THEN Raises("KeyError")
             ELSE Returned(ModerateBranch(hc["acetazolamide"])
                             \o AlternativeOption(level))
    ELSE IF level = "High"
      THEN IF "acetazolamide" \notin DOMAIN hc
             THEN Raises("KeyError")
             ELSE Returned(HighBranch(hc["acetazolamide"])
                             \o AlternativeOption(level))
    ELSE Returned(AlternativeOption(level))

Prophylaxis ==
    /\ pc = "idle"
    /\ \E level \in RiskLevels, hc \in ContraindicationMaps :
          LET res == recommend_prophylaxis(level, hc)
          IN  /\ risk_level' = level
              /\ has_contraindications' = hc
              /\ recommendations' = res.recommendations
              /\ raised' = res.raised
    /\ pc' = "prophylaxis_done"
    /\ UNCHANGED <<history, sleeping_elevation, ascent_rate, age,
                   medical_conditions, risk_factors, risk_score,
                   planVars, diagVars, treatments, history_hape>>

NextProphylaxis == Prophylaxis

SpecProphylaxis == Init /\ [][NextProphylaxis]_vars

(***************************************************************************)
(* recommend_hape_prophylaxis                                              *)
(***************************************************************************)

\* the "if not contraindications[...]" block
NifedipineBlock(contraindicated) ==
    IF ~contraindicated
      THEN << Medication("Nifedipine (Extended Release)", "30 mg every 12 hours",
                         "Day before ascent", "4-7 days at target altitude",
                         "Strong Recommendation",
                         "First-line for HAPE prevention in susceptible individuals") >>
      ELSE <<>>

\* faulty variant: Dexamethasone ahead of Tadalafil
AlternativesBlock_Swapped(contraindicated) ==
    IF contraindicated
      THEN << Medication("Dexamethasone", "8 mg every 12 hours",
                         "Day before ascent", "4-7 days at target altitude",
                         "Strong Recommendation (Alternative)",
                         "Use if nifedipine and tadalafil contraindicated"),
              Medication("Tadalafil", "10 mg every 12 hours",
                         "Day before ascent", "4-7 days at target altitude",
                         "Strong Recommendation (Alternative)",
                         "Use if nifedipine contraindicated") >>
      ELSE <<>>

\* the "if contraindications[...]" block
AlternativesBlock(contraindicated) ==
    IF contraindicated
      THEN << Medication("Tadalafil", "10 mg every 12 hours",
                         "Day before ascent", "4-7 days at target altitude",
                         "Strong Recommendation (Alternative)",
                         "Use if nifedipine contraindicated"),
              Medication("Dexamethasone", "8 mg every 12 hours",
                         "Day before ascent", "4-7 days at target altitude",
                         "Strong Recommendation (Alternative)",
                         "Use if nifedipine and tadalafil contraindicated") >>
      ELSE <<>>

\* the returned list; contraindications["nifedipine"] raises KeyError when
\* the dict has no such key
recommend_hape_prophylaxis(hape, contraindications) ==
    IF ~hape
      THEN Returned(<<>>)
    ELSE IF "nifedipine" \notin DOMAIN contraindications
      THEN Raises("KeyError")
    ELSE Returned(NifedipineBlock(contraindications["nifedipine"])
                    \o AlternativesBlock(contraindications["nifedipine"]))

HapeProphylaxis ==
    /\ pc = "idle"
    /\ \E hape \in BOOLEAN, contraindications \in ContraindicationMaps :
          LET res == recommend_hape_prophylaxis(hape, contraindications)
          IN  /\ history_hape' = hape
              /\ has_contraindications' = contraindications
              /\ recommendations' = res.recommendations
              /\ raised' = res.raised
    /\ pc' = "hape_prophylaxis_done"
    /\ UNCHANGED <<riskVars, planVars, diagVars, treatments>>

NextHapeProphylaxis == HapeProphylaxis

SpecHapeProphylaxis == Init /\ [][NextHapeProphylaxis]_vars

(***************************************************************************)
(* The prevention plan: either recommendation function                     *)
(***************************************************************************)

NextPrevention == NextProphylaxis \/ NextHapeProphylaxis

SpecPrevention == Init /\ [][NextPrevention]_vars

(***************************************************************************)
(* The symptom checker's "Analyze Symptoms" button                         *)
(***************************************************************************)

\* the options of the functional status slider
FunctionalStatuses ==
    {"Normal activities", "Slightly reduced", "Moderately limited",
     "Severely limited", "Unable to function"}

\* a selection the handler analyses: not empty, options of the form only
FormSelections ==
    {S \in SUBSET FormSymptoms : S # {} /\ Cardinality(S) <= MaxSymptoms}

\* the points the functional status adds
FunctionalPoints(status) ==
    IF status = "Severely limited" \/ status = "Unable to function" THEN 2
    ELSE IF status = "Moderately limited" THEN 1
    ELSE 0

\* "Lake Louise AMS Score (Approximate)"
LakeLouiseScore(syms, status) ==
    Cardinality(syms \cap {"Headache", "Nausea/Vomiting", "Fatigue", "Dizziness"})
      + FunctionalPoints(status)

Interpretation(s) ==
    IF s >= 6 THEN "Moderate-Severe AMS"
    ELSE IF s >= 3 THEN "Mild AMS"
    ELSE "Unlikely AMS"

\* the handler for a selection that is not empty: the diagnosis, the Lake
\* Louise box when "Headache" is selected, and the treatments of a diagnosis
\* that is not empty (the oxygen saturation message depends on none of these
\* and sets none of them)
AnalyzeSymptoms ==
    /\ pc = "idle"
    /\ \E syms \in FormSelections, status \in FunctionalStatuses :
          LET res == diagnose_symptoms(syms)
              shown == "Headache" \in syms
              s == LakeLouiseScore(syms, status)
          IN  /\ symptoms' = syms
              /\ functional_status' = status
              /\ diagnosis' = res.diagnosis
              /\ severity' = res.severity
              /\ shown_score' = IF shown THEN s ELSE 0
              /\ interpretation' = IF shown THEN Interpretation(s) ELSE "Not shown"
              /\ treatments' = IF res.diagnosis # <<>>
                                 THEN recommend_treatment(res.diagnosis)
                                 ELSE <<>>
    /\ pc' = "analysis_done"
    /\ UNCHANGED <<riskVars, planVars, has_contraindications, recommendations,
                   raised, history_hape>>

NextAnalyze == AnalyzeSymptoms

SpecAnalyze == Init /\ [][NextAnalyze]_vars

(***************************************************************************)
(* Any one invocation                                                      *)
(***************************************************************************)

Next ==
    \/ NextRisk \/ NextPlan \/ NextDiag \/ NextTreat
    \/ NextProphylaxis \/ NextHapeProphylaxis \/ NextAnalyze

Spec == Init /\ [][Next]_vars

(***************************************************************************)
(* Properties of generate_ascent_plan                                      *)
(***************************************************************************)

CeilDiv(a, b) == (a + b - 1) \div b

RestDays(p) == Cardinality({i \in 1..Len(p) : p[i].action = "Rest Day"})

\* C1: in the plan (and in every prefix of it built so far) the altitude never
\* decreases from one step to the next, the first step has day 0 and each
\* later step's day is the previous step's day plus 1.
C1_PlanMonotone ==
    /\ \A i \in 1..(Len(plan) - 1) :
          /\ plan[i + 1].altitude >= plan[i].altitude
          /\ plan[i + 1].day = plan[i].day + 1
    /\ Len(plan) > 0 => plan[1].day = 0

\* a returned plan with both setup steps, ascents and a rest day
C1_Witness ==
    /\ pc = "plan_done"
    /\ Len(plan) >= 5
    /\ plan[1].action = "Intermediate Stop"
    /\ plan[2].action = "Ascent to Base"
    /\ RestDays(plan) >= 1

\* C2: for starting_altitude < target_altitude the call returns, and it
\* returns with the cursor and the last step's altitude equal to the target
\* and at most ceil((target - start) / 500) + rest days + 2 steps.
C2_Terminates ==
    /\ (pc = "plan_intermediate" /\ starting_altitude < target_altitude)
          ~> (pc = "plan_done")
    /\ []((pc = "plan_done" /\ starting_altitude < target_altitude) =>
            /\ current_altitude = target_altitude
            /\ Len(plan) >= 1
            /\ plan[Len(plan)].altitude = target_altitude
            /\ Len(plan) <= CeilDiv(target_altitude - starting_altitude, 500)
                              + RestDays(plan) + 2)

\* a returned plan whose last ascent was clamped to the target
C2_Witness ==
    /\ pc = "plan_done"
    /\ starting_altitude < target_altitude
    /\ Len(plan) >= 2
    /\ plan[Len(plan)].action = "Ascent"
    /\ plan[Len(plan)].altitude - plan[Len(plan) - 1].altitude < 500

\* C3: when starting_altitude >= target_altitude the returned plan is empty.
C3_EmptyWhenNoAscent ==
    (pc = "plan_done" /\ starting_altitude >= target_altitude) => plan = <<>>

\* C4: generate_ascent_plan(X, X) returns at most one step, and no step with
\* action "Ascent" or "Rest Day".
C4_SameAltitude ==
    (pc = "plan_done" /\ starting_altitude = target_altitude) =>
        /\ Len(plan) <= 1
        /\ \A i \in 1..Len(plan) : plan[i].action \notin {"Ascent", "Rest Day"}

\* a returned plan for (X, X) that is not empty
C4_Witness ==
    /\ pc = "plan_done"
    /\ starting_altitude = target_altitude
    /\ Len(plan) = 1

(***************************************************************************)
(* Properties of assess_ams_risk                                           *)
(***************************************************************************)

\* the high-risk comorbidities of the data model
HighRiskComorbidities ==
    {"Cardiac disease", "Pulmonary disease", "Pregnancy",
     "Recent respiratory infection", "Sickle-cell disease"}

Rank(level) == CASE level = "Low" -> 0 [] level = "Moderate" -> 1 [] level = "High" -> 2

\* every (score, level) pair the function returns over the input domains
RiskOutcomes ==
    {[score |-> res.score, level |-> res.level] :
        res \in {assess_ams_risk(h, e, rate, a, mc) :
                    h \in Histories, e \in Elevations, rate \in AscentRates,
                    a \in Ages, mc \in SUBSET Conditions}}

\* the result of the call of this state with other medical conditions
WithConditions(mc) ==
    assess_ams_risk(history, sleeping_elevation, ascent_rate, age, mc)

\* C5: the level is High exactly when risk_score >= 6, Moderate exactly when
\* 3 <= risk_score <= 5 and Low exactly when risk_score <= 2; and a result
\* with a higher score, of any input, never has a lower level.
C5_CutPoints ==
    pc = "risk_done" =>
        /\ risk_level = "High" <=> risk_score >= 6
        /\ risk_level = "Moderate" <=> (3 <= risk_score /\ risk_score <= 5)
        /\ risk_level = "Low" <=> risk_score <= 2
        /\ \A o \in RiskOutcomes :
              o.score > risk_score => Rank(o.level) >= Rank(risk_level)

\* a result at the High cut point
C5_Witness == pc = "risk_done" /\ risk_score = 6 /\ risk_level = "High"

\* the level the cut points of the data model give for a score
CutPointLevel(score) ==
    CASE score >= 6 -> "High"
      [] score >= 3 /\ score < 6 -> "Moderate"
      [] score < 3 -> "Low"

OneStepUp(level) ==
    CASE level = "Low" -> "Moderate"
      [] level = "Moderate" -> "High"
      [] level = "High" -> "High"

HistoryWeight(h) ==
    CASE h = "HAPE or HACE" -> 3
      [] h = "Moderate-Severe AMS" -> 2
      [] h = "Mild AMS" -> 1
      [] OTHER -> 0

ElevationWeight(e) ==
    CASE e > 3500 -> 3
      [] e \in 2800..3500 -> 2
      [] e \in 2500..2799 -> 1
      [] e < 2500 -> 0

RateWeight(rate) == IF rate > 500 THEN 2 ELSE 0

AgeWeight(a) == IF a < 18 \/ a > 65 THEN 1 ELSE 0

\* C7: with no medical conditions risk_score is the sum of the history,
\* sleeping-elevation, ascent-rate and age weights; ("HAPE or HACE", 4000,
\* 600, 70, no conditions) gives score 9 and level High.
C7_ScoreIsSumOfWeights ==
    (pc = "risk_done" /\ medical_conditions = {}) =>
        /\ risk_score = HistoryWeight(history) + ElevationWeight(sleeping_elevation)
                          + RateWeight(ascent_rate) + AgeWeight(age)
        /\ (history = "HAPE or HACE" /\ sleeping_elevation = 4000
              /\ ascent_rate = 600 /\ age = 70)
             => (risk_score = 9 /\ risk_level = "High")

\* the example of the claim
C7_Witness ==
    /\ pc = "risk_done"
    /\ medical_conditions = {}
    /\ history = "HAPE or HACE"
    /\ sleeping_elevation = 4000
    /\ ascent_rate = 600
    /\ age = 70
    /\ risk_score = 9

\* the conditions named in risk_factors
NamedInFactors == {c \in Conditions : InSeq(Factor(c), risk_factors)}

\* C8 as stated: each of the five high-risk comorbidities present adds 1 to the
\* score and appears in risk_factors.
C8_FiveComorbidities ==
    pc = "risk_done" =>
        /\ risk_score = WithConditions({}).score
                          + Cardinality(medical_conditions \cap HighRiskComorbidities)
        /\ medical_conditions \cap HighRiskComorbidities \subseteq NamedInFactors

\* C8 as amended: cardiac disease and pulmonary disease each add 1 to the
\* score and appear in risk_factors; no other condition (pregnancy, recent
\* respiratory infection and sickle-cell disease included) adds to the score
\* or appears in risk_factors.
C8_TwoComorbidities ==
    pc = "risk_done" =>
        /\ risk_score = WithConditions({}).score
                          + Cardinality(medical_conditions
                                          \cap {"Cardiac disease", "Pulmonary disease"})
        /\ NamedInFactors =
              medical_conditions \cap {"Cardiac disease", "Pulmonary disease"}

\* both scored conditions and an unscored high-risk comorbidity are present
C8_Witness ==
    /\ pc = "risk_done"
    /\ {"Cardiac disease", "Pulmonary disease", "Pregnancy"} \subseteq medical_conditions
    /\ risk_score = WithConditions({}).score + 2

\* the order of the histories by severity
Severity(h) ==
    CASE h = "None" -> 0
      [] h = "None or Mild AMS" -> 1
      [] h = "Mild AMS" -> 2
      [] h = "Moderate-Severe AMS" -> 3
      [] h = "HAPE or HACE" -> 4

\* C9: with the other inputs fixed, a more severe history, a higher sleeping
\* elevation, a higher ascent rate or one more medical condition never
\* lowers risk_score.
C9_ScoreMonotone ==
    pc = "risk_done" =>
        /\ \A h \in Histories : Severity(h) > Severity(history) =>
              assess_ams_risk(h, sleeping_elevation, ascent_rate, age,
                              medical_conditions).score >= risk_score
        /\ \A e \in Elevations : e > sleeping_elevation =>
              assess_ams_risk(history, e, ascent_rate, age,
                              medical_conditions).score >= risk_score
        /\ \A rate \in AscentRates : rate > ascent_rate =>
              assess_ams_risk(history, sleeping_elevation, rate, age,
                              medical_conditions).score >= risk_score
        /\ \A c \in Conditions :
              WithConditions(medical_conditions \cup {c}).score >= risk_score

\* a result every factor of which can still be raised, and is weighted
C9_Witness ==
    /\ pc = "risk_done"
    /\ history = "Mild AMS"
    /\ sleeping_elevation = 2500
    /\ ascent_rate = 500
    /\ medical_conditions = {"Cardiac disease"}
    /\ risk_score >= 3

(***************************************************************************)
(* Properties of diagnose_symptoms                                         *)
(***************************************************************************)

\* the signs of HACE of the data model
HaceSigns == {"Ataxia", "Altered mental status", "Confusion", "Severe lassitude"}

\* C10: if the symptoms contain ataxia, altered mental status, confusion or
\* severe lassitude, the diagnosis contains HACE and the severity is the
\* emergency severity, whatever the other symptoms.
C10_HaceSigns ==
    (pc = "diag_done" /\ symptoms \cap HaceSigns # {}) =>
        /\ InSeq(HACE_LABEL, diagnosis)
        /\ severity = "Severe - Emergency"


\* C11: whenever the diagnosis contains the HACE or the HAPE label, the
\* severity is "Severe - Emergency", also when an AMS label was produced.
C11_EmergencySeverity ==
    (pc = "diag_done"
       /\ (InSeq(HACE_LABEL, diagnosis) \/ InSeq(HAPE_LABEL, diagnosis))) =>
        severity = "Severe - Emergency"

\* a diagnosis with an AMS label followed by an emergency label
C11_Witness ==
    /\ pc = "diag_done"
    /\ Len(diagnosis) >= 2
    /\ diagnosis[1] = "Moderate-Severe AMS"
    /\ InSeq(HAPE_LABEL, diagnosis)

LakeLouiseEstimate(syms) ==
    (IF "Severe headache" \in syms THEN 3 ELSE IF "Headache" \in syms THEN 1 ELSE 0)
      + Cardinality(syms \cap {"Nausea/Vomiting", "Fatigue", "Dizziness"})

HasAmsLabel == InSeq("Mild AMS", diagnosis) \/ InSeq("Moderate-Severe AMS", diagnosis)

\* C13: an estimate of 0 gives no AMS label, 3-5 gives Mild AMS and 6-12 gives
\* Moderate-Severe AMS (symptom sets without a severe headache, whose points
\* the form fixes); a severe headache with nausea gives Moderate-Severe AMS.
C13_LakeLouiseGrades ==
    pc = "diag_done" =>
        /\ LakeLouiseEstimate(symptoms) = 0 => ~HasAmsLabel
        /\ ("Severe headache" \notin symptoms
              /\ LakeLouiseEstimate(symptoms) \in 3..5)
             => InSeq("Mild AMS", diagnosis)
        /\ ("Severe headache" \notin symptoms
              /\ LakeLouiseEstimate(symptoms) \in 6..12)
             => InSeq("Moderate-Severe AMS", diagnosis)
        /\ symptoms = {"Severe headache", "Nausea/Vomiting"}
             => InSeq("Moderate-Severe AMS", diagnosis)

\* C14: the severity is "None" exactly when the diagnosis is empty; the empty
\* symptom set gives the empty diagnosis and severity "None".
C14_NoneIffEmpty ==
    pc = "diag_done" =>
        /\ severity = "None" <=> diagnosis = <<>>
        /\ symptoms = {} => (diagnosis = <<>> /\ severity = "None")

\* the call with no symptoms
C14_Witness == pc = "diag_done" /\ symptoms = {} /\ severity = "None"


(***************************************************************************)
(* Properties of recommend_treatment                                       *)
(***************************************************************************)

Illnesses == {"Mild AMS", "Moderate-Severe AMS", "HACE", "HAPE"}

\* the diagnosis names the illness, by its bare name or by its full label
Diagnosed(illness) ==
    \E i \in 1..Len(diagnosis) :
        \/ diagnosis[i] = illness
        \/ illness = "HACE" /\ diagnosis[i] = HACE_LABEL
        \/ illness = "HAPE" /\ diagnosis[i] = HAPE_LABEL

BlockOf(illness) ==
    CASE illness = "Mild AMS" -> MildAmsBlock
      [] illness = "Moderate-Severe AMS" -> ModerateSevereAmsBlock
      [] illness = "HACE" -> HaceBlock
      [] illness = "HAPE" -> HapeBlock

\* C15: every item of the HACE and HAPE blocks in the returned list has
\* priority EMERGENCY, and every EMERGENCY item comes before every item of
\* another priority.
C15_EmergencyFirst ==
    pc = "treat_done" =>
        /\ \A i \in 1..Len(treatments) :
              (InSeq(treatments[i], HaceBlock) \/ InSeq(treatments[i], HapeBlock))
                 => treatments[i].priority = "EMERGENCY"
        /\ \A i, j \in 1..Len(treatments) :
              (i < j /\ treatments[j].priority = "EMERGENCY")
                 => treatments[i].priority = "EMERGENCY"

\* C16: the returned list contains every item of the block of each illness
\* the diagnosis names, no item of the block of another illness, and nothing
\* else.
C16_LabelDriven ==
    pc = "treat_done" =>
        /\ \A k \in Illnesses : \A n \in 1..Len(BlockOf(k)) :
              InSeq(BlockOf(k)[n], treatments) <=> Diagnosed(k)
        /\ \A i \in 1..Len(treatments) :
              \E k \in Illnesses : InSeq(treatments[i], BlockOf(k))
        /\ Len(treatments) =
              (IF Diagnosed("Mild AMS") THEN 4 ELSE 0)
                + (IF Diagnosed("Moderate-Severe AMS") THEN 4 ELSE 0)
                + (IF Diagnosed("HACE") THEN 4 ELSE 0)
                + (IF Diagnosed("HAPE") THEN 5 ELSE 0)

\* Moderate-Severe AMS together with HAPE, the HAPE label first
C16_Witness ==
    /\ pc = "treat_done"
    /\ diagnosis = <<HAPE_LABEL, "Moderate-Severe AMS">>
    /\ Len(treatments) = 9

\* C17 as stated: for the empty diagnosis the returned list is exactly one
\* Low-urgency action.
C17_MonitoringAction ==
    (pc = "treat_done" /\ diagnosis = <<>>) =>
        /\ Len(treatments) = 1
        /\ treatments[1].priority = "Low"

\* C17 as amended: for the empty diagnosis the returned list is empty, and it
\* is empty for no diagnosis that names an illness.
C17_EmptyForEmpty ==
    pc = "treat_done" =>
        /\ diagnosis = <<>> => treatments = <<>>
        /\ treatments = <<>> => \A k \in Illnesses : ~Diagnosed(k)

\* the call with the empty diagnosis
C17_Witness == pc = "treat_done" /\ diagnosis = <<>> /\ treatments = <<>>


(***************************************************************************)
(* Properties of recommend_prophylaxis                                     *)
(***************************************************************************)

IsMedication(r) == "medication" \in DOMAIN r

IsAction(r) == "action" \in DOMAIN r

\* positions of the medication entries of a list
MedicationEntries(recs) == {i \in 1..Len(recs) : IsMedication(recs[i])}

HasMedication(recs, name) ==
    \E i \in MedicationEntries(recs) : recs[i].medication = name

\* position of the first medication entry (a list with one is assumed)
FirstMedication(recs) ==
    CHOOSE i \in MedicationEntries(recs) :
        \A j \in MedicationEntries(recs) : i <= j

\* a call that found the acetazolamide key with the given value
CalledWith(levels, contraindicated) ==
    /\ pc = "prophylaxis_done"
    /\ risk_level \in levels
    /\ "acetazolamide" \in DOMAIN has_contraindications
    /\ has_contraindications["acetazolamide"] = contraindicated

\* C18: for Moderate or High with acetazolamide contraindicated the returned
\* list has no Acetazolamide, has Dexamethasone, and Dexamethasone is its
\* first medication entry.
C18_DexamethasoneSubstitute ==
    CalledWith({"Moderate", "High"}, TRUE) =>
        /\ raised = "None"
        /\ ~HasMedication(recommendations, "Acetazolamide")
        /\ HasMedication(recommendations, "Dexamethasone")
        /\ recommendations[FirstMedication(recommendations)].medication
              = "Dexamethasone"

\* C19: for Moderate or High with acetazolamide not contraindicated the first
\* medication is Acetazolamide, 125 mg every 12 hours for Moderate and 250 mg
\* every 12 hours for High, and a weakly recommended Ibuprofen entry follows
\* it; for Low no medication is returned.
C19_AcetazolamideFirst ==
    /\ CalledWith({"Moderate", "High"}, FALSE) =>
          /\ raised = "None"
          /\ MedicationEntries(recommendations) # {}
          /\ LET first == FirstMedication(recommendations)
             IN  /\ recommendations[first].medication = "Acetazolamide"
                 /\ recommendations[first].dose =
                       (IF risk_level = "Moderate"
                          THEN "125 mg every 12 hours"
                          ELSE "250 mg every 12 hours")
                 /\ \E i \in MedicationEntries(recommendations) :
                       /\ i > first
                       /\ recommendations[i].medication = "Ibuprofen (Alternative)"
                       /\ recommendations[i].strength = "Weak Recommendation"
    /\ (pc = "prophylaxis_done" /\ risk_level = "Low") =>
          /\ raised = "None"
          /\ MedicationEntries(recommendations) = {}

\* High without the contraindication: Acetazolamide, the staged ascent, then
\* Ibuprofen
C19_Witness ==
    /\ CalledWith({"High"}, FALSE)
    /\ Len(recommendations) = 3
    /\ recommendations[1].dose = "250 mg every 12 hours"
    /\ recommendations[3].medication = "Ibuprofen (Alternative)"

IsGradualAscent(r) == IsAction(r) /\ r.action = "Gradual Ascent"

\* C20 as stated: whatever the level and the map, the returned list starts
\* with the gradual-ascent action.
C20_GradualAscentFirst ==
    (pc = "prophylaxis_done" /\ raised = "None") =>
        /\ recommendations # <<>>
        /\ IsGradualAscent(recommendations[1])

\* C20 as amended: for Low the returned list is the gradual-ascent action
\* alone, whatever the map; for Moderate and High a returned list is not
\* empty, holds no gradual-ascent action, and starts with a medication or the
\* staged-ascent action.
C20_GradualAscentForLow ==
    pc = "prophylaxis_done" =>
        /\ risk_level = "Low" =>
              /\ raised = "None"
              /\ Len(recommendations) = 1
              /\ IsGradualAscent(recommendations[1])
        /\ (risk_level \in {"Moderate", "High"} /\ raised = "None") =>
              /\ recommendations # <<>>
              /\ \A i \in 1..Len(recommendations) :
                    ~IsGradualAscent(recommendations[i])
              /\ \/ IsMedication(recommendations[1])
                 \/ recommendations[1].action = "Consider Staged Ascent"

\* Low with every medication contraindicated
C20_Witness ==
    /\ pc = "prophylaxis_done"
    /\ risk_level = "Low"
    /\ has_contraindications = [k \in MedicationKeys |-> TRUE]
    /\ Len(recommendations) = 1

(***************************************************************************)
(* Properties of recommend_hape_prophylaxis and of the contraindication    *)
(* map                                                                     *)
(***************************************************************************)

\* the medication names of a list, in order
MedicationNames(recs) == [i \in 1..Len(recs) |-> recs[i].medication]

\* C21: with a HAPE history the returned list is never empty: Nifedipine
\* alone when nifedipine is not contraindicated, Tadalafil then Dexamethasone
\* when it is; without a HAPE history the list is empty.
C21_HapeFallbackChain ==
    pc = "hape_prophylaxis_done" =>
        /\ (history_hape /\ "nifedipine" \in DOMAIN has_contraindications) =>
              /\ raised = "None"
              /\ recommendations # <<>>
              /\ MedicationNames(recommendations) =
                    (IF has_contraindications["nifedipine"]
                       THEN <<"Tadalafil", "Dexamethasone">>
                       ELSE <<"Nifedipine (Extended Release)">>)
        /\ ~history_hape => (raised = "None" /\ recommendations = <<>>)

\* a HAPE history with nifedipine contraindicated
C21_Witness ==
    /\ pc = "hape_prophylaxis_done"
    /\ history_hape
    /\ has_contraindications = [k \in MedicationKeys |-> k = "nifedipine"]
    /\ Len(recommendations) = 2

\* C22: a map without the acetazolamide or nifedipine key is read as "not
\* contraindicated": the call returns a list with the first-line drug and
\* raises nothing.
C22_MissingKeyFailsOpen ==
    /\ (/\ pc = "prophylaxis_done"
        /\ risk_level \in {"Moderate", "High"}
        /\ "acetazolamide" \notin DOMAIN has_contraindications) =>
          /\ raised = "None"
          /\ HasMedication(recommendations, "Acetazolamide")
    /\ (/\ pc = "hape_prophylaxis_done"
        /\ history_hape
        /\ "nifedipine" \notin DOMAIN has_contraindications) =>
          /\ raised = "None"
          /\ HasMedication(recommendations, "Nifedipine (Extended Release)")

\* the key of the map that belongs to a medication entry
OwnKey(name) ==
    CASE name = "Acetazolamide" -> "acetazolamide"
      [] name = "Dexamethasone" -> "dexamethasone"
      [] name = "Nifedipine (Extended Release)" -> "nifedipine"
      [] name = "Ibuprofen (Alternative)" -> "ibuprofen"
      [] OTHER -> "none"

\* C23: no returned medication is one whose own key is true in the map.
C23_OwnKeyChecked ==
    pc \in {"prophylaxis_done", "hape_prophylaxis_done"} =>
        \A i \in MedicationEntries(recommendations) :
            LET key == OwnKey(recommendations[i].medication)
            IN  key \in DOMAIN has_contraindications =>
                    ~has_contraindications[key]

(***************************************************************************)
(* Further properties of generate_ascent_plan                              *)
(***************************************************************************)

ActionAt(i) == plan[i].action

\* steps i-2, i-1 and i are 'Ascent' steps
ThreeAscentsUpTo(i) ==
    /\ i >= 3
    /\ \A j \in (i - 2)..i : ActionAt(j) = "Ascent"

\* C24: in a returned plan a 'Rest Day' comes exactly after the third
\* consecutive 'Ascent' step when the target is not yet reached: it follows
\* three 'Ascent' steps, has the altitude of the step before it and is not the
\* last step; three 'Ascent' steps in a row are followed by a 'Rest Day' or
\* end the plan, so there are never four in a row and never two adjacent rest
\* days; and the plan for (0, 5000) has a 'Rest Day'.
C24_RestDayRule ==
    pc = "plan_done" =>
        /\ \A i \in 1..Len(plan) :
              /\ ActionAt(i) = "Rest Day" =>
                    /\ i > 3
                    /\ ThreeAscentsUpTo(i - 1)
                    /\ plan[i].altitude = plan[i - 1].altitude
                    /\ i < Len(plan)
                    /\ ActionAt(i + 1) # "Rest Day"
              /\ (ThreeAscentsUpTo(i) /\ i < Len(plan)) =>
                    ActionAt(i + 1) = "Rest Day"
              /\ ~(ThreeAscentsUpTo(i) /\ i > 3 /\ ActionAt(i - 3) = "Ascent")
        /\ (starting_altitude = 0 /\ target_altitude = 5000) =>
              \E i \in 1..Len(plan) : ActionAt(i) = "Rest Day"

\* the plan for (0, 5000): stop, base, three ascents, a rest day, the last
\* ascent
C24_Witness ==
    /\ pc = "plan_done"
    /\ starting_altitude = 0
    /\ target_altitude = 5000
    /\ Len(plan) = 7
    /\ ActionAt(6) = "Rest Day"

\* the altitude reached before step i
AltitudeBefore(i) == IF i = 1 THEN starting_altitude ELSE plan[i - 1].altitude

GainAt(i) == plan[i].altitude - AltitudeBefore(i)

\* C25: every 'Ascent' step gains more than 0 and at most 500 m, and every
\* step above 3000 m gains at most 500 m over the altitude before it.
C25_GainLimit ==
    \A i \in 1..Len(plan) :
        /\ ActionAt(i) = "Ascent" => (GainAt(i) > 0 /\ GainAt(i) <= 500)
        /\ plan[i].altitude > 3000 => GainAt(i) <= 500

\* a returned plan with a full 500 m ascent and a shorter last one, both
\* above 3000 m
C25_Witness ==
    /\ pc = "plan_done"
    /\ \E i, j \in 1..Len(plan) :
          /\ ActionAt(i) = "Ascent" /\ plan[i].altitude > 3000 /\ GainAt(i) = 500
          /\ ActionAt(j) = "Ascent" /\ GainAt(j) = 250

\* positions of the 'Intermediate Stop' steps
IntermediateStops == {i \in 1..Len(plan) : ActionAt(i) = "Intermediate Stop"}

C27_NoDescent ==
    (/\ starting_altitude \in 0..5000
     /\ target_altitude \in 1000..9000) =>
        \A i \in 1..Len(plan) : plan[i].altitude >= starting_altitude

(***************************************************************************)
(* Properties of the symptom checker and of the displayed risk score       *)
(***************************************************************************)

\* the HACE signs among the options of the symptom form
FormHaceOptions ==
    {"Ataxia (loss of coordination)", "Altered mental status", "Confusion"}

\* C28: a selection with any HACE-sign option of the form is diagnosed with
\* the HACE label and the emergency severity.
C28_FormHaceOptionsRecognised ==
    (pc = "analysis_done" /\ symptoms \cap FormHaceOptions # {}) =>
        /\ InSeq(HACE_LABEL, diagnosis)
        /\ severity = "Severe - Emergency"

\* the AMS grade of the diagnosis, in the words of the interpretation
AmsGrade ==
    IF InSeq("Moderate-Severe AMS", diagnosis) THEN "Moderate-Severe AMS"
    ELSE IF InSeq("Mild AMS", diagnosis) THEN "Mild AMS"
    ELSE "Unlikely AMS"

\* C29: for a selection with "Headache", whatever the functional status, the
\* interpretation shown with the Lake Louise score is the AMS grade of the
\* diagnosis.
C29_InterpretationAgrees ==
    (pc = "analysis_done" /\ "Headache" \in symptoms) =>
        interpretation = AmsGrade

\* C30: the returned risk_score lies between 0 and 10.
C30_ScoreWithinScale ==
    pc = "risk_done" => (risk_score >= 0 /\ risk_score <= 10)
====
